---- MODULE Spec2Model ----
\* Model of lib/cloudwatchlogs/writer.go: the CloudWatch Logs stream writer
\* (writer.WriteMessageBatch, writer.Close) and the parser of the
\* InvalidSequenceTokenException error text.
\*
\* Go strings are modelled as sequences of one-character strings, so that
\* strings.HasPrefix, strings.Split and strings.TrimSpace are computed and not
\* assumed.  A *string is <<>> for nil and <<s>> for a pointer to s.
EXTENDS Integers, Sequences, FiniteSets, TLC

\* ---------------------------------------------------------------- bounds

\* number of calls (WriteMessageBatch, Close) the goroutines make in all
MaxCalls ==
  3

\* number of calls the goroutines make in all where termination is checked
MaxLiveCalls ==
  2

\* number of calls the goroutines make in all where the client's lookups
\* are interleaved with them
MaxRegistryCalls ==
  2

\* number of replacement writers the client creates for the writer's key
MaxReplacements ==
  2

\* length of the text that follows the head of a parsed error message
MaxTail ==
  4

\* ------------------------------------------------------- program constants

\* writer.go:83  attempt < 3
MaxAttempts ==
  3

\* writer.go:118 len(parts) < 3
MinParts ==
  3

\* ---------------------------------------------------------------- strings

EmptyStr ==
  <<>>

NilPtr ==
  <<>>

\* "InvalidSequenceTokenException:"
TokenMismatchPrefix ==
  <<
    "I","n","v","a","l","i","d","S","e","q","u","e","n","c","e","T","o","k",
    "e","n","E","x","c","e","p","t","i","o","n",":" >>

\* "the writer was invalidated by another goroutine"
MsgInvalidWriter ==
  <<
    "t","h","e"," ","w","r","i","t","e","r"," ","w","a","s"," ","i","n","v",
    "a","l","i","d","a","t","e","d"," ","b","y"," ","a","n","o","t","h","e",
    "r"," ","g","o","r","o","u","t","i","n","e" >>

\* "InvalidSequenceTokenException: fooError: expected sequence token is: ABC123"
MsgFooError ==
  <<
    "I","n","v","a","l","i","d","S","e","q","u","e","n","c","e","T","o","k",
    "e","n","E","x","c","e","p","t","i","o","n",":"," ","f","o","o","E","r",
    "r","o","r",":"," ","e","x","p","e","c","t","e","d"," ","s","e","q","u",
    "e","n","c","e"," ","t","o","k","e","n"," ","i","s",":"," ","A","B","C",
    "1","2","3" >>

\* "InvalidSequenceTokenException: The next expected sequenceToken is: 4954\n\tstatus code: 400"
MsgAWS ==
  <<
    "I","n","v","a","l","i","d","S","e","q","u","e","n","c","e","T","o","k",
    "e","n","E","x","c","e","p","t","i","o","n",":"," ","T","h","e"," ","n",
    "e","x","t"," ","e","x","p","e","c","t","e","d"," ","s","e","q","u","e",
    "n","c","e","T","o","k","e","n"," ","i","s",":"," ","4","9","5","4",
    "\n","\t","s","t","a","t","u","s"," ","c","o","d","e",":"," ","4","0",
    "0" >>

\* "InvalidSequenceTokenException: bad token"
MsgNoToken ==
  <<
    "I","n","v","a","l","i","d","S","e","q","u","e","n","c","e","T","o","k",
    "e","n","E","x","c","e","p","t","i","o","n",":"," ","b","a","d"," ","t",
    "o","k","e","n" >>

\* "ResourceNotFoundException: no such stream: s"
MsgNotFound ==
  <<
    "R","e","s","o","u","r","c","e","N","o","t","F","o","u","n","d","E","x",
    "c","e","p","t","i","o","n",":"," ","n","o"," ","s","u","c","h"," ","s",
    "t","r","e","a","m",":"," ","s" >>

\* "ABC123"
ABC123 ==
  << "A", "B", "C", "1", "2", "3" >>

\* "T1"
TokT1 ==
  <<
    "T","1" >>

\* "4954"
Tok4954 ==
  <<
    "4","9","5","4" >>

\* ------------------------------------------------- package strings, aws

\* strings.HasPrefix(s, prefix)
HasPrefix(s, prefix) ==
  /\ Len(s) >= Len(prefix)
  /\ SubSeq(s, 1, Len(prefix)) = prefix

\* strings.Index(s, sep) for a one-character sep, 1-based; 0 when absent
Index(s, sep) ==
  IF \E i \in 1..Len(s) : s[i] = sep
    THEN CHOOSE i \in 1..Len(s) : s[i] = sep /\ \A j \in 1..(i - 1) : s[j] # sep
    ELSE 0

RECURSIVE Split(_, _)
\* strings.Split(s, sep) for a one-character sep: the substrings between the
\* separators, one more than there are separators
Split(s, sep) ==
  LET i == Index(s, sep)
  IN IF i = 0
       THEN << s >>
       ELSE << SubSeq(s, 1, i - 1) >> \o Split(SubSeq(s, i + 1, Len(s)), sep)

\* unicode.IsSpace on the characters of the model's alphabet
IsSpace(c) ==
  c \in {" ", "\t", "\n", "\r", "\f"}

\* strings.TrimSpace(s)
TrimSpace(s) ==
  LET keep == {i \in 1..Len(s) : ~IsSpace(s[i])}
      first == CHOOSE i \in keep : \A j \in keep : i <= j
      last == CHOOSE i \in keep : \A j \in keep : j <= i
  IN IF keep = {} THEN EmptyStr ELSE SubSeq(s, first, last)

\* aws.String(s): a pointer to s
String(s) ==
  << s >>

\* aws.StringValue(p): the string p points to, "" for nil
StringValue(p) ==
  IF p = NilPtr THEN EmptyStr ELSE p[1]

\* ------------------------------------------------------------- errors

NilErr ==
  [kind |-> "nil", msg |-> EmptyStr]

\* writer.go:129-131
errInvalidWriter ==
  [kind |-> "errors.New", msg |-> MsgInvalidWriter]

\* an error returned by the CloudWatch Logs client, with its message
ClientErr(m) ==
  [kind |-> "awserr", msg |-> m]

\* err.Error()
Error(e) ==
  e.msg

\* ------------------------------------- parseInvalidSequenceTokenException

\* the mutated parser: it splits the whole message, not only its first line
parseWholeMessage(e) ==
  LET m == Error(e)
      parts == Split(m, ":")
  IN IF ~HasPrefix(m, TokenMismatchPrefix) \/ Len(parts) < MinParts
       THEN NilPtr
       ELSE << TrimSpace(parts[3]) >>

\* writer.go:103-127, the returned token (nil when none is extracted)
parseInvalidSequenceTokenException(e) ==
  LET m == Error(e)
  IN IF ~HasPrefix(m, TokenMismatchPrefix)
       THEN NilPtr
       ELSE LET lines == Split(m, "\n")
                line == IF Len(lines) # 0 THEN lines[1] ELSE m
                parts == Split(line, ":")
            IN IF Len(parts) < MinParts
                 THEN NilPtr
                 ELSE << TrimSpace(parts[3]) >>

\* writer.go:105-124, the lines the parser prints with fmt.Println
parseOutput(e) ==
  LET m == Error(e)
  IN IF ~HasPrefix(m, TokenMismatchPrefix)
       THEN << << "<<<", m >>, << "no prefix" >> >>
       ELSE LET lines == Split(m, "\n")
                line == IF Len(lines) # 0 THEN lines[1] ELSE m
                parts == Split(line, ":")
            IN IF Len(parts) < MinParts
                 THEN << << "<<<", m >>, << "bad parts count:", Len(parts) >> >>
                 ELSE << << "<<<", m >>, << ">>>", TrimSpace(parts[3]) >> >>

\* ---------------------------------------------------- messages and events

\* ecslogs.Message values the callers write
Msg1 ==
  [Group |-> "app", Stream |-> "web", Time |-> 1500, Content |-> "hello"]

Msg2 ==
  [Group |-> "app", Stream |-> "web", Time |-> 2999, Content |-> "world"]

\* the batches a caller may pass to WriteMessageBatch
Batches ==
  {<< >>, << Msg1, Msg2 >>}

\* the zero value of a field of ecslogs.Message
ZeroValue(f) ==
  IF f = "Time" THEN 0 ELSE ""

\* ecslogs.Message.String: the serialized message, zero-valued fields omitted
MessageString(m) ==
  [f \in {g \in DOMAIN m : m[g] # ZeroValue(g)} |-> m[f]]

\* ecslogs.Timestamp.Milliseconds
Milliseconds(ts) ==
  ts \div 1000

\* writer.go:42-49, the event built from one message of the batch
MakeEvent(m) ==
  [Message |-> MessageString([m EXCEPT !.Group = "", !.Stream = "", !.Time = 0]),
   Timestamp |-> Milliseconds(m.Time)]

\* the mutated loop: the events are stored in reverse order
MakeEventsReversed(b) ==
  [i \in 1..Len(b) |-> MakeEvent(b[Len(b) + 1 - i])]

\* writer.go:37-50
MakeEvents(b) ==
  [i \in 1..Len(b) |-> MakeEvent(b[i])]

\* ------------------------------------------------------------ the state

\* the goroutines that call WriteMessageBatch on the writer
Procs ==
  {"g1", "g2"}

\* the (group, stream) of the writer and of another stream of the client
WriterKey ==
  << "app", "web" >>

OtherKey ==
  << "app", "db" >>

\* w.parent: the client, or nil once the writer is invalidated
Client ==
  "client"

NilParent ==
  "nil"

\* *cloudwatchlogs.PutLogEventsOutput
NilResult ==
  [NextSequenceToken |-> NilPtr]

\* the NextSequenceToken values the service returns
NextTokens ==
  {NilPtr, String(EmptyStr), String(TokT1)}

\* the messages of the errors the service returns
ErrMsgs ==
  {MsgFooError, MsgAWS, MsgNoToken, MsgNotFound}

\* the error messages given to the parser on its own: a head and a short tail
Alphabet ==
  {":", " ", "\n", "a"}

RECURSIVE Tails(_)
Tails(n) ==
  IF n = 0
    THEN {<< >>}
    ELSE Tails(n - 1) \cup {Append(t, c) : t \in {u \in Tails(n - 1) : Len(u) = n - 1}, c \in Alphabet}

Heads ==
  {<< >>, TokenMismatchPrefix, SubSeq(TokenMismatchPrefix, 1, Len(TokenMismatchPrefix) - 1)}

ParserInputs ==
  {h \o t : h \in Heads, t \in Tails(MaxTail)}

VARIABLES
  mutex,          \* w.mutex: TRUE while locked
  group,          \* w.group
  stream,         \* w.stream
  token,          \* w.token
  parent,         \* w.parent
  writers,        \* the client's registered writers, by (group, stream)
  generation,     \* the replacement writers the client created for the key
  pc,             \* per goroutine: position in WriteMessageBatch
  batch,          \* per goroutine: the batch argument
  events,         \* per goroutine: local events
  ltoken,         \* per goroutine: local token (*string)
  result,         \* per goroutine: local result
  err,            \* per goroutine: the named return value err
  attempt,        \* per goroutine: the loop variable attempt
  stdout,         \* the lines last written to standard output
  ncalls,         \* history: the number of calls made
  callid,         \* history: per goroutine, the number of its current call
  sent,           \* history: PutLogEvents inputs of the current call
  recv,           \* history: PutLogEvents outcomes of the current call
  putlog,         \* history: the calls in the order of their PutLogEvents
  removes,        \* history: the client.remove calls
  lastNext,       \* history: the NextSequenceToken of the last success
  sawInvalid,     \* history: the writer was invalid when the call began
  perr,           \* parser on its own: the error given
  ptoken,         \* parser on its own: the token returned
  pdone           \* parser on its own: the parser has returned

wvars ==
  << mutex, group, stream, token, parent, writers, generation >>

lvars ==
  << pc, batch, events, ltoken, result, err, attempt >>

hvars ==
  << ncalls, callid, sent, recv, putlog, removes, lastNext, sawInvalid >>

pvars ==
  << perr, ptoken, pdone >>

vars ==
  << wvars, lvars, hvars, stdout, pvars >>

\* the writer as the client creates it, registered under its (group, stream)
InitWriter ==
  /\ mutex = FALSE
  /\ group = WriterKey[1]
  /\ stream = WriterKey[2]
  /\ token = EmptyStr
  /\ parent = Client
  /\ writers = {WriterKey, OtherKey}
  /\ generation = 0
  /\ pc = [p \in Procs |-> "idle"]
  /\ batch = [p \in Procs |-> << >>]
  /\ events = [p \in Procs |-> << >>]
  /\ ltoken = [p \in Procs |-> NilPtr]
  /\ result = [p \in Procs |-> NilResult]
  /\ err = [p \in Procs |-> NilErr]
  /\ attempt = [p \in Procs |-> 0]
  /\ stdout = << >>
  /\ ncalls = 0
  /\ callid = [p \in Procs |-> 0]
  /\ sent = [p \in Procs |-> << >>]
  /\ recv = [p \in Procs |-> << >>]
  /\ putlog = << >>
  /\ removes = << >>
  /\ lastNext = [set |-> FALSE, val |-> NilPtr]
  /\ sawInvalid = [p \in Procs |-> FALSE]
  /\ ptoken = NilPtr
  /\ pdone = FALSE

Init ==
  /\ InitWriter
  /\ perr = NilErr

\* --------------------------------------------------- WriteMessageBatch

\* a goroutine calls w.WriteMessageBatch(b); writer.go:30, 35-36
Call(p, b) ==
  /\ pc[p] = "idle"
  /\ ncalls < MaxCalls
  /\ pc' = [pc EXCEPT ![p] = "start"]
  /\ batch' = [batch EXCEPT ![p] = b]
  /\ ltoken' = [ltoken EXCEPT ![p] = NilPtr]
  /\ result' = [result EXCEPT ![p] = NilResult]
  /\ err' = [err EXCEPT ![p] = NilErr]
  /\ ncalls' = ncalls + 1
  /\ callid' = [callid EXCEPT ![p] = ncalls + 1]
  /\ sawInvalid' = [sawInvalid EXCEPT ![p] = (parent = NilParent)]
  /\ UNCHANGED << wvars, events, attempt, stdout, sent, recv, putlog,
                  removes, lastNext, pvars >>

\* the mutated start: the empty batch is not returned early
BeginNoEmptyCheck(p) ==
  /\ pc[p] = "start"
  /\ events' = [events EXCEPT ![p] = MakeEvents(batch[p])]
  /\ pc' = [pc EXCEPT ![p] = "lock"]
  /\ UNCHANGED << wvars, batch, ltoken, result, err, attempt, stdout, hvars,
                  pvars >>

\* writer.go:31-50: return on an empty batch, else build the events
Begin(p) ==
  /\ pc[p] = "start"
  /\ IF Len(batch[p]) = 0
       THEN /\ pc' = [pc EXCEPT ![p] = "ret"]
            /\ UNCHANGED events
       ELSE /\ events' = [events EXCEPT ![p] = MakeEvents(batch[p])]
            /\ pc' = [pc EXCEPT ![p] = "lock"]
  /\ UNCHANGED << wvars, batch, ltoken, result, err, attempt, stdout, hvars,
                  pvars >>

\* the mutated lock: it does not wait for the mutex to be free
LockNoWait(p) ==
  /\ pc[p] = "lock"
  /\ mutex' = TRUE
  /\ pc' = [pc EXCEPT ![p] = "check"]
  /\ UNCHANGED << group, stream, token, parent, writers, generation, batch,
                  events, ltoken, result, err, attempt, stdout, hvars,
                  pvars >>

\* writer.go:55  w.mutex.Lock()
Lock(p) ==
  /\ pc[p] = "lock"
  /\ mutex = FALSE
  /\ mutex' = TRUE
  /\ pc' = [pc EXCEPT ![p] = "check"]
  /\ UNCHANGED << group, stream, token, parent, writers, generation, batch,
                  events, ltoken, result, err, attempt, stdout, hvars,
                  pvars >>

\* the mutated check: an invalidated writer is not detected
CheckParentSkip(p) ==
  /\ pc[p] = "check"
  /\ pc' = [pc EXCEPT ![p] = "token"]
  /\ UNCHANGED << wvars, batch, events, ltoken, result, err, attempt, stdout,
                  hvars, pvars >>

\* the mutated check: the error is set but the function does not return
CheckParentNoReturn(p) ==
  /\ pc[p] = "check"
  /\ err' = [err EXCEPT ![p] =
               IF parent = NilParent THEN errInvalidWriter ELSE err[p]]
  /\ pc' = [pc EXCEPT ![p] = "token"]
  /\ UNCHANGED << wvars, batch, events, ltoken, result, attempt, stdout,
                  hvars, pvars >>

\* writer.go:58-62: an invalidated writer returns errInvalidWriter
CheckParent(p) ==
  /\ pc[p] = "check"
  /\ IF parent = NilParent
       THEN /\ err' = [err EXCEPT ![p] = errInvalidWriter]
            /\ pc' = [pc EXCEPT ![p] = "unlock"]
       ELSE /\ pc' = [pc EXCEPT ![p] = "token"]
            /\ UNCHANGED err
  /\ UNCHANGED << wvars, batch, events, ltoken, result, attempt, stdout,
                  hvars, pvars >>

\* the mutated load: the stored token is always passed, even when empty
LoadTokenAlways(p) ==
  /\ pc[p] = "token"
  /\ ltoken' = [ltoken EXCEPT ![p] = String(token)]
  /\ attempt' = [attempt EXCEPT ![p] = 1]
  /\ pc' = [pc EXCEPT ![p] = "put"]
  /\ UNCHANGED << wvars, batch, events, result, err, stdout, hvars, pvars >>

\* writer.go:64-68: the stored token, nil when it is empty; attempt := 1
LoadToken(p) ==
  /\ pc[p] = "token"
  /\ ltoken' = [ltoken EXCEPT ![p] =
                  IF Len(token) # 0 THEN String(token) ELSE ltoken[p]]
  /\ attempt' = [attempt EXCEPT ![p] = 1]
  /\ pc' = [pc EXCEPT ![p] = "put"]
  /\ UNCHANGED << wvars, batch, events, result, err, stdout, hvars, pvars >>

\* writer.go:69-73: the call of w.parent.client.PutLogEvents; a nil w.parent
\* is a nil pointer dereference
PutLogEvents(p) ==
  /\ pc[p] = "put"
  /\ IF parent = NilParent
       THEN /\ pc' = [pc EXCEPT ![p] = "panic"]
            /\ UNCHANGED << sent, putlog >>
       ELSE /\ pc' = [pc EXCEPT ![p] = "wait"]
            /\ sent' = [sent EXCEPT ![p] =
                          Append(@, [LogEvents |-> events[p],
                                     LogGroupName |-> group,
                                     LogStreamName |-> stream,
                                     SequenceToken |-> ltoken[p],
                                     prev |-> lastNext])]
            /\ putlog' = IF putlog # << >> /\ putlog[Len(putlog)] = callid[p]
                           THEN putlog
                           ELSE Append(putlog, callid[p])
  /\ UNCHANGED << wvars, batch, events, ltoken, result, err, attempt, stdout,
                  ncalls, callid, recv, removes, lastNext, sawInvalid, pvars >>

\* writer.go:69-76: PutLogEvents returns a result and no error
PutSucceeds(p, next) ==
  /\ pc[p] = "wait"
  /\ result' = [result EXCEPT ![p] = [NextSequenceToken |-> next]]
  /\ err' = [err EXCEPT ![p] = NilErr]
  /\ recv' = [recv EXCEPT ![p] =
                Append(@, [err |-> NilErr, NextSequenceToken |-> next])]
  /\ lastNext' = [set |-> TRUE, val |-> next]
  /\ pc' = [pc EXCEPT ![p] = "store"]
  /\ UNCHANGED << wvars, batch, events, ltoken, attempt, stdout, ncalls, callid,
                  sent, putlog, removes, sawInvalid, pvars >>

\* writer.go:69-74: PutLogEvents returns an error with message m
PutFails(p, m) ==
  /\ pc[p] = "wait"
  /\ result' = [result EXCEPT ![p] = NilResult]
  /\ err' = [err EXCEPT ![p] = ClientErr(m)]
  /\ recv' = [recv EXCEPT ![p] =
                Append(@, [err |-> ClientErr(m), NextSequenceToken |-> NilPtr])]
  /\ pc' = [pc EXCEPT ![p] = "parse"]
  /\ UNCHANGED << wvars, batch, events, ltoken, attempt, stdout, ncalls, callid,
                  sent, putlog, removes, lastNext, sawInvalid, pvars >>

\* the mutated condition: one attempt too many
MayRetryOneMore(a, t) ==
  a <= MaxAttempts /\ t # NilPtr

\* the mutated condition: it retries whether or not a token was extracted
MayRetryAnyError(a, t) ==
  a < MaxAttempts

\* writer.go:83  attempt < 3 && token != nil
MayRetry(a, t) ==
  a < MaxAttempts /\ t # NilPtr

\* the mutated retry: the extracted token is not passed to the next attempt
ParseKeepToken(p) ==
  /\ pc[p] = "parse"
  /\ stdout' = parseOutput(err[p])
  /\ IF MayRetry(attempt[p], parseInvalidSequenceTokenException(err[p]))
       THEN /\ err' = [err EXCEPT ![p] = NilErr]
            /\ attempt' = [attempt EXCEPT ![p] = @ + 1]
            /\ pc' = [pc EXCEPT ![p] = "put"]
            /\ UNCHANGED ltoken
       ELSE /\ pc' = [pc EXCEPT ![p] = "remove"]
            /\ ltoken' = [ltoken EXCEPT ![p] =
                            parseInvalidSequenceTokenException(err[p])]
            /\ UNCHANGED << err, attempt >>
  /\ UNCHANGED << wvars, batch, events, result, hvars, pvars >>

\* writer.go:83-86: extract the token from the error; retry with it while
\* attempts remain, else go on to invalidate the writer
Parse(p) ==
  /\ pc[p] = "parse"
  /\ ltoken' = [ltoken EXCEPT ![p] = parseInvalidSequenceTokenException(err[p])]
  /\ stdout' = parseOutput(err[p])
  /\ IF MayRetry(attempt[p], ltoken'[p])
       THEN /\ err' = [err EXCEPT ![p] = NilErr]
            /\ attempt' = [attempt EXCEPT ![p] = @ + 1]
            /\ pc' = [pc EXCEPT ![p] = "put"]
       ELSE /\ pc' = [pc EXCEPT ![p] = "remove"]
            /\ UNCHANGED << err, attempt >>
  /\ UNCHANGED << wvars, batch, events, result, hvars, pvars >>

\* client.remove(group, stream): the entry of that key is removed if present
remove(ws, g, s) ==
  ws \ {<< g, s >>}

\* the writer registered under key k: 0 is the writer w, n > 0 is the n-th
\* replacement the client created for k, NoWriter is no writer at all
NoWriter ==
  0 - 1

Occupant(ws, gen, k) ==
  IF k \in ws THEN gen ELSE NoWriter

\* the mutated removal: the writer is not removed from its client
RemoveSkip(p) ==
  /\ pc[p] = "remove"
  /\ pc' = [pc EXCEPT ![p] = "setnil"]
  /\ UNCHANGED << wvars, batch, events, ltoken, result, err, attempt, stdout,
                  hvars, pvars >>

\* writer.go:94  w.parent.remove(w.group, w.stream)
Remove(p) ==
  /\ pc[p] = "remove"
  /\ writers' = remove(writers, group, stream)
  /\ removes' = Append(removes, [by |-> callid[p],
                                 key |-> << group, stream >>,
                                 evicted |-> Occupant(writers, generation,
                                                      << group, stream >>)])
  /\ pc' = [pc EXCEPT ![p] = "setnil"]
  /\ UNCHANGED << mutex, group, stream, token, parent, generation, batch,
                  events, ltoken, result, err, attempt, stdout, ncalls,
                  callid, sent, recv, putlog, lastNext, sawInvalid,
                  pvars >>

\* the mutated invalidation: w.parent is left set
SetNilSkip(p) ==
  /\ pc[p] = "setnil"
  /\ pc' = [pc EXCEPT ![p] = "unlock"]
  /\ UNCHANGED << wvars, batch, events, ltoken, result, err, attempt, stdout,
                  hvars, pvars >>

\* writer.go:95-96  w.parent = nil; return
SetNil(p) ==
  /\ pc[p] = "setnil"
  /\ parent' = NilParent
  /\ pc' = [pc EXCEPT ![p] = "unlock"]
  /\ UNCHANGED << mutex, group, stream, token, writers, generation, batch,
                  events, ltoken, result, err, attempt, stdout, hvars,
                  pvars >>

\* the mutated store: the returned token is not adopted
StoreSkip(p) ==
  /\ pc[p] = "store"
  /\ pc' = [pc EXCEPT ![p] = "unlock"]
  /\ UNCHANGED << wvars, batch, events, ltoken, result, err, attempt, stdout,
                  hvars, pvars >>

\* writer.go:99-100  w.token = aws.StringValue(result.NextSequenceToken)
Store(p) ==
  /\ pc[p] = "store"
  /\ token' = StringValue(result[p].NextSequenceToken)
  /\ pc' = [pc EXCEPT ![p] = "unlock"]
  /\ UNCHANGED << mutex, group, stream, parent, writers, generation, batch,
                  events, ltoken, result, err, attempt, stdout, hvars,
                  pvars >>

\* the mutated Unlock: the function returns with the mutex still locked
UnlockSkip(p) ==
  /\ pc[p] = "unlock"
  /\ pc' = [pc EXCEPT ![p] = "ret"]
  /\ UNCHANGED << wvars, batch, events, ltoken, result, err, attempt, stdout,
                  hvars, pvars >>

\* writer.go:56  defer w.mutex.Unlock(), run when the function returns
Unlock(p) ==
  /\ pc[p] = "unlock"
  /\ mutex' = FALSE
  /\ pc' = [pc EXCEPT ![p] = "ret"]
  /\ UNCHANGED << group, stream, token, parent, writers, generation, batch,
                  events, ltoken, result, err, attempt, stdout, hvars,
                  pvars >>

\* the mutated Close: it invalidates the writer
CloseInvalidates(p) ==
  /\ pc[p] = "idle"
  /\ ncalls < MaxCalls
  /\ pc' = [pc EXCEPT ![p] = "closed"]
  /\ err' = [err EXCEPT ![p] = NilErr]
  /\ ncalls' = ncalls + 1
  /\ callid' = [callid EXCEPT ![p] = ncalls + 1]
  /\ parent' = NilParent
  /\ UNCHANGED << mutex, group, stream, token, writers, generation, batch,
                  events, ltoken, result, attempt, stdout, sent, recv,
                  putlog, removes, lastNext, sawInvalid, pvars >>

\* writer.go:22-24: a goroutine calls w.Close(), which returns nil
Close(p) ==
  /\ pc[p] = "idle"
  /\ ncalls < MaxCalls
  /\ pc' = [pc EXCEPT ![p] = "closed"]
  /\ err' = [err EXCEPT ![p] = NilErr]
  /\ ncalls' = ncalls + 1
  /\ callid' = [callid EXCEPT ![p] = ncalls + 1]
  /\ UNCHANGED << wvars, batch, events, ltoken, result, attempt, stdout, sent,
                  recv, putlog, removes, lastNext, sawInvalid, pvars >>

\* the caller receives err; the locals of the call are gone
Return(p) ==
  /\ pc[p] \in {"ret", "closed"}
  /\ pc' = [pc EXCEPT ![p] = "idle"]
  /\ batch' = [batch EXCEPT ![p] = << >>]
  /\ events' = [events EXCEPT ![p] = << >>]
  /\ ltoken' = [ltoken EXCEPT ![p] = NilPtr]
  /\ result' = [result EXCEPT ![p] = NilResult]
  /\ err' = [err EXCEPT ![p] = NilErr]
  /\ attempt' = [attempt EXCEPT ![p] = 0]
  /\ sent' = [sent EXCEPT ![p] = << >>]
  /\ recv' = [recv EXCEPT ![p] = << >>]
  /\ sawInvalid' = [sawInvalid EXCEPT ![p] = FALSE]
  /\ UNCHANGED << wvars, stdout, ncalls, callid, putlog, removes, lastNext, pvars >>

Next ==
  \/ \E p \in Procs, b \in Batches : Call(p, b)
  \/ \E p \in Procs : Begin(p)
  \/ \E p \in Procs : Lock(p)
  \/ \E p \in Procs : CheckParent(p)
  \/ \E p \in Procs : LoadToken(p)
  \/ \E p \in Procs : PutLogEvents(p)
  \/ \E p \in Procs, next \in NextTokens : PutSucceeds(p, next)
  \/ \E p \in Procs, m \in ErrMsgs : PutFails(p, m)
  \/ \E p \in Procs : Parse(p)
  \/ \E p \in Procs : Remove(p)
  \/ \E p \in Procs : SetNil(p)
  \/ \E p \in Procs : Store(p)
  \/ \E p \in Procs : Unlock(p)
  \/ \E p \in Procs : Return(p)
  \/ \E p \in Procs : Close(p)

Spec ==
  Init /\ [][Next]_vars

\* the token the parser extracts from each error of the service
Extracted ==
  [m \in ErrMsgs |-> parseInvalidSequenceTokenException(ClientErr(m))]

\* the lines the parser prints for each error of the service
Printed ==
  [m \in ErrMsgs |-> parseOutput(ClientErr(m))]

\* the step Parse(p) with the parser's result and output read from the
\* tables: on the errors of the service it is the same step
ParseTabled(p) ==
  /\ pc[p] = "parse"
  /\ ltoken' = [ltoken EXCEPT ![p] = Extracted[Error(err[p])]]
  /\ stdout' = Printed[Error(err[p])]
  /\ IF MayRetry(attempt[p], Extracted[Error(err[p])])
       THEN /\ err' = [err EXCEPT ![p] = NilErr]
            /\ attempt' = [attempt EXCEPT ![p] = @ + 1]
            /\ pc' = [pc EXCEPT ![p] = "put"]
       ELSE /\ pc' = [pc EXCEPT ![p] = "remove"]
            /\ UNCHANGED << err, attempt >>
  /\ UNCHANGED << wvars, batch, events, result, hvars, pvars >>

\* the steps of goroutine p once it has made a call
Step(p) ==
  \/ Begin(p)
  \/ Lock(p)
  \/ CheckParent(p)
  \/ LoadToken(p)
  \/ PutLogEvents(p)
  \/ \E next \in NextTokens : PutSucceeds(p, next)
  \/ \E m \in ErrMsgs : PutFails(p, m)
  \/ ParseTabled(p)
  \/ Remove(p)
  \/ SetNil(p)
  \/ Store(p)
  \/ Unlock(p)
  \/ Return(p)

\* the steps of the system while at most MaxLiveCalls calls are made
NextLive ==
  Next /\ ncalls' <= MaxLiveCalls

\* a goroutine that can take a step eventually takes one, and PutLogEvents
\* returns; whether a goroutine makes a call is left open
SpecLive ==
  Init /\ [][NextLive]_vars /\ \A p \in Procs : WF_vars(Step(p))

\* ------------------------------------------- the client's other callers

\* the client looks the writer's key up and finds no writer: it creates a
\* replacement writer and registers it under the key
Lookup ==
  /\ << group, stream >> \notin writers
  /\ generation < MaxReplacements
  /\ writers' = writers \cup {<< group, stream >>}
  /\ generation' = generation + 1
  /\ UNCHANGED << mutex, group, stream, token, parent, lvars, hvars, stdout,
                  pvars >>

\* the registered replacement writer fails beyond recovery and removes
\* itself from the client, as writer.go:94 does for any writer
ReplacementRemoves ==
  /\ Occupant(writers, generation, << group, stream >>) > 0
  /\ writers' = remove(writers, group, stream)
  /\ UNCHANGED << mutex, group, stream, token, parent, generation, lvars,
                  hvars, stdout, pvars >>

\* the steps of the writer's callers, of the client's lookups and of the
\* replacement writers, while at most MaxRegistryCalls calls are made
NextRegistry ==
  /\ \/ Next
     \/ Lookup
     \/ ReplacementRemoves
  /\ ncalls' <= MaxRegistryCalls

SpecRegistry ==
  Init /\ [][NextRegistry]_vars

\* ------------------------------------------------ the parser on its own

\* the parser is given the error of a rejected request
InitParse ==
  /\ InitWriter
  /\ perr \in {ClientErr(m) : m \in ParserInputs}

\* writer.go:83  token = parseInvalidSequenceTokenException(err)
ParseCall ==
  /\ pdone = FALSE
  /\ pdone' = TRUE
  /\ ptoken' = parseInvalidSequenceTokenException(perr)
  /\ stdout' = parseOutput(perr)
  /\ UNCHANGED << wvars, lvars, hvars, perr >>

NextParse ==
  ParseCall

SpecParse ==
  InitParse /\ [][NextParse]_vars


\* ------------------------------------------------------------ properties

\* the goroutine holds w.mutex: it is between Lock and Unlock
InCS(p) ==
  pc[p] \in {"check", "token", "put", "wait", "store", "parse", "remove",
             "setnil", "unlock", "panic"}

\* the last outcome of the PutLogEvents calls of the current call of p
LastRecv(p) ==
  recv[p][Len(recv[p])]

\* the token the parser extracts from an outcome of PutLogEvents
ExtractedFrom(r) ==
  IF r.err = NilErr THEN NilPtr ELSE Extracted[Error(r.err)]

\* the current call of p has called client.remove
RemovedBy(p) ==
  \E i \in 1..Len(removes) : removes[i].by = callid[p]

\* C1: at most one WriteMessageBatch call is inside the critical section at
\* any time, a PutLogEvents call is made only by the holder of the mutex, and
\* the PutLogEvents calls of one WriteMessageBatch call are contiguous in the
\* order of all PutLogEvents calls of the writer (no call appears twice in the
\* run-compressed order).
C1_MutualExclusion ==
  /\ Cardinality({p \in Procs : InCS(p)}) <= 1
  /\ \A p \in Procs : InCS(p) => mutex = TRUE
  /\ \A i, j \in 1..Len(putlog) : putlog[i] = putlog[j] => i = j

\* C1 witness: one call is in its second PutLogEvents while another call,
\* begun earlier, waits for the mutex, after a first call has completed
C1_Witness ==
  \E p, q \in Procs :
    /\ pc[p] = "wait" /\ Len(sent[p]) = 2
    /\ pc[q] = "lock" /\ callid[q] < callid[p]
    /\ Len(putlog) = 2

\* C2 as stated: the first PutLogEvents of a call carries exactly the
\* NextSequenceToken returned by the last successful PutLogEvents, and nil
\* when there was none.
C2_TokenContinuityExact ==
  \A p \in Procs :
    sent[p] # << >> =>
      sent[p][1].SequenceToken =
        IF sent[p][1].prev.set THEN sent[p][1].prev.val ELSE NilPtr

\* C2 amended: the first PutLogEvents of a call carries the NextSequenceToken
\* returned by the last successful PutLogEvents when that token is a
\* non-empty string, and nil when there was no earlier success or the
\* returned token was nil or the empty string.
C2_TokenContinuity ==
  \A p \in Procs :
    sent[p] # << >> =>
      LET prev == sent[p][1].prev
      IN sent[p][1].SequenceToken =
           IF prev.set /\ prev.val # NilPtr /\ prev.val # << EmptyStr >>
             THEN prev.val
             ELSE NilPtr

\* C2 witness: a call's first PutLogEvents carries the token "T1" that the
\* previous successful call returned
C2_Witness ==
  \E p \in Procs :
    /\ Len(sent[p]) = 1
    /\ sent[p][1].prev = [set |-> TRUE, val |-> << TokT1 >>]
    /\ sent[p][1].SequenceToken = << TokT1 >>

\* C3: when attempt i < 3 of a call is rejected with an error from which the
\* parser extracts token T, the call goes on to attempt i+1 and makes it with
\* exactly T; when the attempt after a rejection succeeds, the call returns
\* nil, the writer keeps its parent and its registration, and w.token is the
\* NextSequenceToken of that attempt (the empty string for nil).
C3_StaleTokenRecovery ==
  \A p \in Procs :
    /\ \A i \in 1..Len(recv[p]) :
         LET T == ExtractedFrom(recv[p][i])
         IN (recv[p][i].err # NilErr /\ T # NilPtr /\ i < 3) =>
              /\ Len(sent[p]) > i => sent[p][i + 1].SequenceToken = T
              /\ Len(sent[p]) = i => pc[p] \in {"parse", "put"}
    /\ (Len(recv[p]) >= 2 /\ LastRecv(p).err = NilErr) =>
         /\ pc[p] \in {"store", "unlock", "ret"}
         /\ err[p] = NilErr
         /\ pc[p] = "unlock" =>
              /\ parent = Client
              /\ << group, stream >> \in writers
              /\ LastRecv(p).NextSequenceToken = NilPtr => token = EmptyStr
              /\ LastRecv(p).NextSequenceToken # NilPtr =>
                   token = LastRecv(p).NextSequenceToken[1]

\* C3 witness: a call whose first attempt was rejected with the AWS message
\* and whose second attempt succeeded is about to release the mutex
C3_Witness ==
  \E p \in Procs :
    /\ pc[p] = "unlock"
    /\ Len(recv[p]) = 2
    /\ recv[p][1].err = ClientErr(MsgAWS)
    /\ sent[p][2].SequenceToken = << Tok4954 >>
    /\ recv[p][2].err = NilErr
    /\ token = TokT1

\* C4: a call makes at most 3 PutLogEvents calls; when all three are rejected
\* with an extractable token the call removes the writer from its client,
\* sets w.parent to nil and returns the error of the third attempt.
C4_RetryBound ==
  \A p \in Procs :
    /\ Len(sent[p]) <= 3
    /\ ( /\ Len(recv[p]) = 3
         /\ \A i \in 1..3 :
              /\ recv[p][i].err # NilErr
              /\ ExtractedFrom(recv[p][i]) # NilPtr ) =>
         /\ pc[p] \in {"parse", "remove", "setnil", "unlock", "ret"}
         /\ pc[p] \in {"unlock", "ret"} =>
              /\ err[p] = recv[p][3].err
              /\ parent = NilParent
              /\ << group, stream >> \notin writers
              /\ RemovedBy(p)

\* C4 witness: a call returns after three rejections with extractable tokens
C4_Witness ==
  \E p \in Procs :
    /\ pc[p] = "ret"
    /\ Len(sent[p]) = 3
    /\ \A i \in 1..3 : recv[p][i].err \in {ClientErr(MsgAWS), ClientErr(MsgFooError)}
    /\ err[p] = recv[p][3].err

\* C5: client.remove is called at most once over the life of the writer,
\* always with the writer's own (group, stream), and a call that ends in an
\* unrecoverable failure has called it exactly once.
C5_RemoveOnce ==
  /\ Len(removes) <= 1
  /\ \A i \in 1..Len(removes) : removes[i].key = << group, stream >>
  /\ \A p \in Procs :
       ( /\ pc[p] \in {"unlock", "ret"}
         /\ recv[p] # << >>
         /\ LastRecv(p).err # NilErr ) =>
         Cardinality({i \in 1..Len(removes) : removes[i].by = callid[p]}) = 1

\* C5 witness: a call that failed on an error with no token has returned and
\* a later call on the invalidated writer has returned too
C5_Witness ==
  \E p, q \in Procs :
    /\ p # q
    /\ pc[p] = "ret" /\ Len(sent[p]) = 1 /\ err[p] = ClientErr(MsgNotFound)
    /\ pc[q] = "ret" /\ err[q] = errInvalidWriter
    /\ Len(removes) = 1

\* C6 as stated: a call begun on an invalidated writer returns
\* errInvalidWriter, whatever its batch, and makes no PutLogEvents call.
C6_InvalidWriterWhateverBatch ==
  \A p \in Procs :
    (sawInvalid[p] /\ pc[p] = "ret") =>
      err[p] = errInvalidWriter /\ sent[p] = << >>

\* C6 amended: a call begun on an invalidated writer makes no PutLogEvents
\* call; with a non-empty batch it returns errInvalidWriter, with an empty
\* batch it returns nil.
C6_InvalidWriter ==
  \A p \in Procs :
    sawInvalid[p] =>
      /\ sent[p] = << >>
      /\ pc[p] \in {"start", "lock", "check", "unlock", "ret"}
      /\ (pc[p] \in {"unlock", "ret"} /\ batch[p] # << >>) =>
           err[p] = errInvalidWriter
      /\ (pc[p] = "ret" /\ batch[p] = << >>) => err[p] = NilErr

\* C6 witness: a call with a non-empty batch, begun after the writer was
\* invalidated, returns errInvalidWriter
C6_Witness ==
  \E p \in Procs :
    /\ sawInvalid[p]
    /\ pc[p] = "ret"
    /\ batch[p] # << >>
    /\ err[p] = errInvalidWriter

\* the step of an empty-batch call: it returns nil and changes nothing else
EmptyBatchStep(p) ==
  (pc[p] = "start" /\ batch[p] = << >> /\ pc'[p] # pc[p]) =>
    /\ pc'[p] = "ret"
    /\ err'[p] = NilErr
    /\ UNCHANGED << mutex, group, stream, token, parent, writers, stdout,
                    sent, recv, putlog, removes, lastNext >>

\* C7: a call with an empty batch returns nil in one step that leaves the
\* stored token, w.parent, the client's writers and the mutex unchanged and
\* makes no PutLogEvents call; it is never at the lock or inside the
\* critical section.
C7_EmptyBatchNoop ==
  /\ [][\A p \in Procs : EmptyBatchStep(p)]_vars
  /\ [](\A p \in Procs :
          (pc[p] \notin {"idle", "closed"} /\ batch[p] = << >>) =>
            pc[p] \in {"start", "ret"} /\ sent[p] = << >> /\ err[p] = NilErr)

\* C7 witness: an empty-batch call has returned while another call holds the
\* mutex and waits for PutLogEvents
C7_Witness ==
  \E p, q \in Procs :
    /\ pc[p] = "ret" /\ batch[p] = << >> /\ err[p] = NilErr
    /\ pc[q] = "wait" /\ callid[q] < callid[p]

\* the message starts with the fixed prefix
StartsWithPrefix(m) ==
  \A i \in 1..Len(TokenMismatchPrefix) :
    i <= Len(m) /\ m[i] = TokenMismatchPrefix[i]

\* the first line of the message: what precedes its first newline
FirstLine(m) ==
  LET nl == {i \in 1..Len(m) : m[i] = "\n"}
  IN IF nl = {} THEN m
     ELSE SubSeq(m, 1, (CHOOSE i \in nl : \A j \in nl : i <= j) - 1)

\* the positions of the ':' of a line
Colons(l) ==
  {i \in 1..Len(l) : l[i] = ":"}

\* the position of the n-th ':' of a line
NthColon(l, n) ==
  CHOOSE i \in Colons(l) : Cardinality({j \in Colons(l) : j < i}) = n - 1

\* the third ':'-delimited part of a line with at least two ':'
ThirdPart(l) ==
  SubSeq(l, NthColon(l, 2) + 1,
         IF Cardinality(Colons(l)) >= 3 THEN NthColon(l, 3) - 1 ELSE Len(l))

\* t is s without its leading and trailing whitespace
IsTrimOf(t, s) ==
  \E a \in 0..Len(s) : \E b \in a..Len(s) :
    /\ t = SubSeq(s, a + 1, b)
    /\ \A i \in 1..a : IsSpace(s[i])
    /\ \A i \in (b + 1)..Len(s) : IsSpace(s[i])
    /\ t # << >> => ~IsSpace(t[1]) /\ ~IsSpace(t[Len(t)])

\* C8: the parser returns nil when the message lacks the fixed prefix or its
\* first line has fewer than 3 ':'-delimited parts, and otherwise a pointer
\* to the third ':'-delimited part of the first line without its surrounding
\* whitespace; the result is that of the first line alone.
C8_ParserContract ==
  pdone =>
    LET m == Error(perr)
        l == FirstLine(m)
    IN /\ IF ~StartsWithPrefix(m) \/ Cardinality(Colons(l)) + 1 < 3
            THEN ptoken = NilPtr
            ELSE ptoken # NilPtr /\ IsTrimOf(ptoken[1], ThirdPart(l))
       /\ ptoken = parseInvalidSequenceTokenException(ClientErr(l))

\* C8 witness: a token is extracted and trimmed from the first line of a
\* message of two lines
C8_Witness ==
  /\ pdone
  /\ ptoken = << << "a" >> >>
  /\ \E i \in 1..Len(Error(perr)) : Error(perr)[i] = "\n"
  /\ \E i \in 1..Len(Error(perr)) : Error(perr)[i] = " "

\* C9: for the error message "InvalidSequenceTokenException: fooError:
\* expected sequence token is: ABC123" the parser extracts "ABC123" and the
\* attempt that follows such a rejection carries exactly "ABC123".
C9_FooErrorYieldsABC123 ==
  \A p \in Procs : \A i \in 1..Len(recv[p]) :
    recv[p][i].err = ClientErr(MsgFooError) =>
      /\ ExtractedFrom(recv[p][i]) = << ABC123 >>
      /\ Len(sent[p]) > i => sent[p][i + 1].SequenceToken = << ABC123 >>

\* C10: the error a call returns is nil, errInvalidWriter or the error of its
\* last PutLogEvents; in the last case the writer was removed from its client
\* and then w.parent set to nil, both while the mutex was held; a rejection
\* followed by a successful attempt is not returned.
C10_ErrorsReturned ==
  \A p \in Procs :
    /\ pc[p] \in {"unlock", "ret"} =>
         \/ err[p] = NilErr
         \/ err[p] = errInvalidWriter /\ sent[p] = << >>
         \/ /\ recv[p] # << >>
            /\ err[p] = LastRecv(p).err
            /\ parent = NilParent
            /\ << group, stream >> \notin writers
            /\ RemovedBy(p)
    /\ pc[p] = "setnil" =>
         /\ mutex = TRUE
         /\ RemovedBy(p)
         /\ << group, stream >> \notin writers
         /\ parent = Client
    /\ pc[p] = "unlock" => mutex = TRUE
    /\ (pc[p] \in {"unlock", "ret"} /\ recv[p] # << >> /\ LastRecv(p).err = NilErr) =>
         err[p] = NilErr

\* C10 witness: a call returns the error of its second attempt, after a first
\* rejection that was retried
C10_Witness ==
  \E p \in Procs :
    /\ pc[p] = "ret"
    /\ Len(recv[p]) = 2
    /\ recv[p][1].err = ClientErr(MsgAWS)
    /\ err[p] = ClientErr(MsgNotFound)


\* C13: when an attempt of a call fails with an error from which the parser
\* extracts no token, that attempt is the last PutLogEvents of the call,
\* whatever its number; the call goes on to remove the writer and to set
\* w.parent to nil and returns that error.
C13_NoTokenUnrecoverable ==
  \A p \in Procs : \A i \in 1..Len(recv[p]) :
    (recv[p][i].err # NilErr /\ ExtractedFrom(recv[p][i]) = NilPtr) =>
      /\ Len(sent[p]) = i
      /\ Len(recv[p]) = i
      /\ pc[p] \in {"parse", "remove", "setnil", "unlock", "ret"}
      /\ pc[p] \in {"unlock", "ret"} =>
           /\ err[p] = recv[p][i].err
           /\ parent = NilParent
           /\ << group, stream >> \notin writers
           /\ RemovedBy(p)

\* C13 witness: a call whose first attempt failed with a message that has the
\* prefix but no third part has returned after that single PutLogEvents
C13_Witness ==
  \E p \in Procs :
    /\ pc[p] = "ret"
    /\ Len(sent[p]) = 1
    /\ err[p] = ClientErr(MsgNoToken)
    /\ parent = NilParent

\* C14: a call that takes the mutex after another call has invalidated the
\* writer makes no PutLogEvents call and no client.remove call and returns
\* errInvalidWriter, also when it had begun before the invalidation.
C14_LateCallerInvalidWriter ==
  \A q \in Procs :
    (parent = NilParent /\ InCS(q) /\ ~RemovedBy(q)) =>
      /\ pc[q] \in {"check", "unlock"}
      /\ sent[q] = << >>
      /\ pc[q] = "unlock" => err[q] = errInvalidWriter

\* the call of q had begun before the writer was invalidated and has
\* returned errInvalidWriter without PutLogEvents and without client.remove
ReturnedInvalidWriter(q) ==
  /\ pc[q] = "ret"
  /\ batch[q] # << >>
  /\ ~sawInvalid[q]
  /\ err[q] = errInvalidWriter
  /\ sent[q] = << >>
  /\ ~RemovedBy(q)

\* C14 witness: of two concurrent calls the first ended in an unrecoverable
\* failure and the second, begun before the invalidation, returned
\* errInvalidWriter
C14_Witness ==
  \E p, q \in Procs :
    /\ p # q
    /\ pc[p] = "ret" /\ RemovedBy(p) /\ err[p] = ClientErr(MsgNotFound)
    /\ ReturnedInvalidWriter(q)

\* C16 as stated: a PutLogEvents call carries a nil SequenceToken only as the
\* first attempt of a call made when no PutLogEvents of the writer had
\* succeeded before.
C16_AbsentOnlyBeforeFirstSuccess ==
  \A p \in Procs : \A i \in 1..Len(sent[p]) :
    sent[p][i].SequenceToken = NilPtr =>
      i = 1 /\ ~sent[p][i].prev.set

\* C16 amended: a PutLogEvents call carries a nil SequenceToken only as the
\* first attempt of a call, and only when no PutLogEvents of the writer had
\* succeeded before or the last success returned a nil or empty
\* NextSequenceToken; a retry never carries nil.
C16_AbsentToken ==
  \A p \in Procs : \A i \in 1..Len(sent[p]) :
    sent[p][i].SequenceToken = NilPtr =>
      /\ i = 1
      /\ \/ ~sent[p][i].prev.set
         \/ sent[p][i].prev.val = NilPtr
         \/ sent[p][i].prev.val = << EmptyStr >>

\* C16 witness: after a success that returned no token a call sends nil in
\* its first attempt and an extracted token in its retry
C16_Witness ==
  \E p \in Procs :
    /\ Len(sent[p]) = 2
    /\ sent[p][1].prev = [set |-> TRUE, val |-> NilPtr]
    /\ sent[p][1].SequenceToken = NilPtr
    /\ sent[p][2].SequenceToken = << Tok4954 >>

\* the positions whose next step reads or writes w.token or w.parent
AccessesWriter(p) ==
  pc[p] \in {"check", "token", "put", "remove", "setnil", "store"}

\* p holds w.mutex and no other goroutine is inside the critical section
HoldsAlone(p) ==
  /\ mutex = TRUE
  /\ InCS(p)
  /\ \A q \in Procs \ {p} : ~InCS(q)

\* C17: a step that changes w.token or w.parent is a step of the goroutine
\* that holds the mutex, and a goroutine about to read or write w.token or
\* w.parent holds the mutex alone.
C17_AccessUnderLock ==
  /\ [][(token' # token \/ parent' # parent) =>
          \E p \in Procs : HoldsAlone(p) /\ pc'[p] # pc[p]]_vars
  /\ [](\A p \in Procs : AccessesWriter(p) => HoldsAlone(p))

\* C17 witness: a goroutine is about to store the returned token while the
\* other waits for the mutex
C17_Witness ==
  \E p, q \in Procs :
    /\ pc[p] = "store" /\ HoldsAlone(p)
    /\ pc[q] = "lock"
    /\ token # StringValue(result[p].NextSequenceToken)

\* C18: every PutLogEvents call of one WriteMessageBatch call carries one
\* event per message of the batch, in batch order, and the writer's group and
\* stream; only the SequenceToken differs between the attempts; the group and
\* the stream of the writer never change.
C18_SameRequest ==
  /\ [](\A p \in Procs : \A i \in 1..Len(sent[p]) :
          /\ Len(sent[p][i].LogEvents) = Len(batch[p])
          /\ \A k \in 1..Len(batch[p]) :
               sent[p][i].LogEvents[k] = MakeEvent(batch[p][k])
          /\ sent[p][i].LogGroupName = WriterKey[1]
          /\ sent[p][i].LogStreamName = WriterKey[2]
          /\ sent[p][i].LogGroupName = group
          /\ sent[p][i].LogStreamName = stream
          /\ \A j \in 1..Len(sent[p]) :
               /\ sent[p][j].LogEvents = sent[p][i].LogEvents
               /\ sent[p][j].LogGroupName = sent[p][i].LogGroupName
               /\ sent[p][j].LogStreamName = sent[p][i].LogStreamName)
  /\ [][group' = group /\ stream' = stream]_vars

\* C18 witness: a call has made three PutLogEvents calls with three different
\* tokens for a batch of two messages
C18_Witness ==
  \E p \in Procs :
    /\ Len(sent[p]) = 3
    /\ Len(sent[p][3].LogEvents) = 2
    /\ sent[p][1].SequenceToken # sent[p][2].SequenceToken
    /\ sent[p][2].SequenceToken # sent[p][3].SequenceToken
    /\ sent[p][1].SequenceToken # sent[p][3].SequenceToken

\* C19: the parser, and so WriteMessageBatch, writes nothing to standard
\* output.
C19_NoOutput ==
  stdout = << >>


\* C11: once w.parent is nil it stays nil, no goroutine is past the parent
\* check, and no step makes a PutLogEvents call or a client.remove call,
\* whatever calls follow.
C11_NeverResumes ==
  /\ [][parent = NilParent =>
          /\ parent' = NilParent
          /\ removes' = removes
          /\ writers' = writers
          /\ putlog' = putlog
          /\ \A p \in Procs : sent'[p] = sent[p] \/ sent'[p] = << >>]_vars
  /\ [](parent = NilParent =>
          \A p \in Procs :
            pc[p] \notin {"token", "put", "wait", "parse", "store", "remove",
                          "setnil", "panic"})

\* C11 witness: after the invalidation a Close has returned and a
\* WriteMessageBatch begun on the invalidated writer has returned
C11_Witness ==
  \E p, q \in Procs :
    /\ parent = NilParent
    /\ pc[p] = "closed" /\ callid[p] > removes[1].by
    /\ pc[q] = "ret" /\ sawInvalid[q] /\ batch[q] # << >>

\* the step of a Close call: it returns nil and changes nothing of the
\* writer, of the client or of the calls in progress
CloseStep(p) ==
  (pc[p] = "idle" /\ pc'[p] = "closed") =>
    /\ err'[p] = NilErr
    /\ UNCHANGED << mutex, group, stream, token, parent, writers, stdout,
                    sent, recv, putlog, removes, lastNext >>

\* C12: Close returns nil in one step that leaves the stored token,
\* w.parent, the client's writers and the mutex unchanged, whether the
\* writer is valid or not and whether the mutex is held or not.
C12_CloseNoop ==
  /\ [][\A p \in Procs : CloseStep(p)]_vars
  /\ [](\A p \in Procs : pc[p] = "closed" => err[p] = NilErr)
  /\ [](\A p \in Procs :
          (pc[p] = "idle" /\ ncalls < MaxCalls) => ENABLED Close(p))

\* C12 witness: Close has returned while another goroutine held the mutex,
\* and a WriteMessageBatch begun after the Close has succeeded
C12_Witness ==
  \E p, q \in Procs :
    /\ pc[p] = "closed"
    /\ callid[q] > callid[p]
    /\ pc[q] = "unlock"
    /\ recv[q] # << >>
    /\ LastRecv(q).err = NilErr
    /\ parent = Client

\* C20: the writer calls client.remove only while w.parent is set and the
\* mutex is held, and leaves w.parent set in that step; what each of its
\* remove calls takes out of the client is never a replacement writer, and
\* no step of its goroutines unregisters a registered replacement, under
\* any interleaving of the calls with the client's lookups.
C20_NeverEvictsReplacement ==
  /\ [][removes' # removes => (parent = Client /\ parent' = Client /\ mutex)]_vars
  /\ [](\A p \in Procs : pc[p] = "remove" => (parent = Client /\ HoldsAlone(p)))
  /\ [](\A i \in 1..Len(removes) : removes[i].evicted <= 0)
  /\ [][(pc' # pc /\ Occupant(writers, generation, << group, stream >>) > 0)
         => Occupant(writers', generation', << group', stream' >>) = generation]_vars

\* C20 witness: the writer has removed itself, the client has registered a
\* replacement under the same key, and a goroutine that called the old
\* writer holds its mutex and is about to find it invalidated
C20_Witness ==
  \E q \in Procs :
    /\ removes # << >>
    /\ parent = NilParent
    /\ Occupant(writers, generation, << group, stream >>) > 0
    /\ pc[q] = "check"

\* C15: the mutex is locked only while a goroutine is between Lock and
\* Unlock, so no return leaves it locked; a goroutine waiting for the mutex
\* leaves the wait only by acquiring it and does not wait for ever, and every
\* call returns to its caller: no goroutine stays in a call for ever.
C15_Termination ==
  /\ [](mutex = TRUE <=> \E p \in Procs : InCS(p))
  /\ [](\A p \in Procs : pc[p] \in {"idle", "ret", "closed"} => ~InCS(p))
  /\ [][\A p \in Procs : pc[p] = "lock" => pc'[p] \in {"lock", "check"}]_vars
  /\ \A p \in Procs : []<>(pc[p] # "lock")
  /\ \A p \in Procs : []<>(pc[p] = "idle")

\* C15 witness: a call that waited for the mutex during the three rejected
\* attempts of another call has returned
C15_Witness ==
  \E p, q \in Procs :
    /\ p # q
    /\ pc[p] = "ret" /\ Len(sent[p]) = 3 /\ err[p] # NilErr
    /\ pc[q] = "ret" /\ callid[q] < callid[p] /\ batch[q] # << >>
    /\ mutex = FALSE

====
